---- MODULE Spec2Model ----
(***************************************************************************)
(* Model of compiler.py (Auto PYtoEXE Compiler): one process run, from     *)
(* main() to the process exit.  Text (package names, manifest lines, file  *)
(* names, console input) is a sequence of one-character strings, so that   *)
(* strip(), lower(), replace() and split() are computed, not assumed.      *)
(* Spec is the whole run; SpecParse is one call of parse_requirements_file *)
(* and SpecAnalyze one call of analyze_dependencies, each on inputs drawn  *)
(* from a bounded set.                                                     *)
(***************************************************************************)
EXTENDS Integers, Sequences, FiniteSets, TLC

VARIABLES
    argc,          \* len(sys.argv) - 1
    manifestExists,\* os.path.exists(<script dir>/requirements.txt)
    manifestLines, \* the lines of requirements.txt
    env,           \* import name -> what __import__ does, as far as observed
    pc,            \* position of the single thread
    mainExists,    \* result of find_main_py ("unknown" before the call)
    scriptPath,    \* python_script_path of the compile in progress
    stdin,         \* the last event read by input()
    prompts,       \* history: the prompts issued and how each was answered
    installLog,    \* history: the install_package calls and their results
    callLog,       \* history: the steps compile_to_exe has entered
    required,      \* required_packages of the running ensure_* function
    missing,       \* missing_packages of the running ensure_* function
    idx,           \* index of the running for-loop
    successCount,  \* success_count of ensure_project_dependencies
    compRet,       \* outcome of ensure_compiler_dependencies
    projRet,       \* outcome of ensure_project_dependencies
    files,         \* the script's directory as analyze_dependencies reads it
    analysis,      \* the dict analyze_dependencies returns
    external,      \* analysis['external_imports']
    cmd,           \* the command line handed to subprocess.run
    toolResult,    \* outcome of the packaging subprocess
    specFile,      \* outputDir/<name>.spec exists
    buildDir,      \* outputDir/build exists
    cleanupRuns,   \* number of calls of _cleanup_temp_files
    result,        \* return value of compile_to_exe
    fault,         \* exception that left main() unhandled
    exitCode       \* exit status of the process (-1 while running)

vars == <<argc, manifestExists, manifestLines, env, pc, mainExists, scriptPath,
          stdin, prompts, installLog, callLog, required, missing, idx,
          successCount, compRet, projRet, files, analysis, external, cmd,
          toolResult, specFile,
          buildDir, cleanupRuns, result, fault, exitCode>>

-----------------------------------------------------------------------------
(* Text *)

UpperChars == <<"A","B","C","D","E","F","G","H","I","J","K","L","M",
                "N","O","P","Q","R","S","T","U","V","W","X","Y","Z">>
LowerChars == <<"a","b","c","d","e","f","g","h","i","j","k","l","m",
                "n","o","p","q","r","s","t","u","v","w","x","y","z">>

UpperSet == {UpperChars[i] : i \in DOMAIN UpperChars}

LowerOf ==
    [c \in UpperSet |-> LowerChars[CHOOSE i \in DOMAIN UpperChars : UpperChars[i] = c]]

LowerChar(c) == IF c \in UpperSet THEN LowerOf[c] ELSE c

\* str.lower()
Lower(s) == [i \in DOMAIN s |-> LowerChar(s[i])]

\* str.replace(a, b) for one-character a and b
Replace(s, a, b) == [i \in DOMAIN s |-> IF s[i] = a THEN b ELSE s[i]]

IsSpace(c) == c \in {" ", "\t", "\n", "\r"}

\* str.strip()
Strip(s) ==
    LET keep == {i \in DOMAIN s : ~IsSpace(s[i])}
    IN  IF keep = {} THEN <<>>
        ELSE LET lo == CHOOSE i \in keep : \A j \in keep : i <= j
                 hi == CHOOSE i \in keep : \A j \in keep : j <= i
             IN  SubSeq(s, lo, hi)

\* str.startswith(p)
StartsWith(s, p) == Len(s) >= Len(p) /\ SubSeq(s, 1, Len(p)) = p

\* str.endswith(p)
EndsWith(s, p) == Len(s) >= Len(p) /\ SubSeq(s, Len(s) - Len(p) + 1, Len(s)) = p

\* s.split(op)[0]: the text before the first occurrence of op
SplitFirst(s, op) ==
    LET at == {i \in 1..(Len(s) - Len(op) + 1) : SubSeq(s, i, i + Len(op) - 1) = op}
    IN  IF at = {} THEN s
        ELSE SubSeq(s, 1, (CHOOSE i \in at : \A j \in at : i <= j) - 1)

-----------------------------------------------------------------------------
(* Program constants *)

\* DependencyManager.REQUIRED_PACKAGES
REQUIRED_PACKAGES == << <<"p","y","i","n","s","t","a","l","l","e","r">> >>

\* the literal 'pyinstaller' of the filter in ensure_project_dependencies
PyInstallerName == <<"p","y","i","n","s","t","a","l","l","e","r">>

\* the answers the consent prompt accepts
ConsentAccept == { <<"y">>, <<"y","e","s">>, <<>> }

\* stdlib_modules of analyze_dependencies
stdlib_modules == {"os", "sys", "math", "json", "datetime", "time", "re",
                   "random", "pathlib", "collections", "itertools", "functools"}


\* the names the file dialog, the command line and the discovery work with
MainPy == <<"m","a","i","n",".","p","y">>
AppPy == <<"a","p","p",".","p","y">>
CompilerPy == <<"c","o","m","p","i","l","e","r",".","p","y">>
NotesTxt == <<"n","o","t","e","s",".","t","x","t">>
UtilPy == <<"u","t","i","l",".","p","y">>
DotPy == <<".","p","y">>
CompilerPrefix == <<"c","o","m","p","i","l","e","r">>

\* os.path.basename(__file__): the tool's own file
OwnFile == CompilerPy

\* AutoCompiler.current_dir: an absolute directory, here "d"
current_dir == <<"d">>

\* os.path.join(dir, file)
Join(dir, file) == IF dir = <<>> THEN file ELSE dir \o <<"/">> \o file

\* os.path.dirname(path)
DirName(path) ==
    LET at == {i \in DOMAIN path : path[i] = "/"}
    IN  IF at = {} THEN <<>>
        ELSE SubSeq(path, 1, (CHOOSE i \in at : \A j \in at : j <= i) - 1)

\* os.path.basename(path)
BaseName(path) ==
    LET at == {i \in DOMAIN path : path[i] = "/"}
    IN  IF at = {} THEN path
        ELSE SubSeq(path, (CHOOSE i \in at : \A j \in at : j <= i) + 1, Len(path))

\* os.path.splitext(name)[0]
SplitExtRoot(name) ==
    LET at == {i \in DOMAIN name : name[i] = "." /\ i > 1}
    IN  IF at = {} THEN name
        ELSE SubSeq(name, 1, (CHOOSE i \in at : \A j \in at : j <= i) - 1)

-----------------------------------------------------------------------------
(* Bounds and input sets *)

\* longest requirements.txt, in lines
MaxLines == 2

LineFlask == <<"f","l","a","s","k",">","=","2",".","0">>
LinePyInstaller == <<"P","y","I","n","s","t","a","l","l","e","r","=","=","6">>
LineClick == <<" ","c","l","i","c","k","\n">>
LineComment == <<"#"," ","c">>

ManifestLineSet == {LineFlask, LinePyInstaller, LineClick, LineComment}

RECURSIVE SeqsUpTo(_, _)
SeqsUpTo(S, n) ==
    IF n = 0 THEN { <<>> }
    ELSE LET shorter == SeqsUpTo(S, n - 1)
         IN  shorter \cup {Append(q, x) : q \in shorter, x \in S}

Manifests == SeqsUpTo(ManifestLineSet, MaxLines)

\* len(sys.argv) - 1
ArgCounts == {0, 1, 2}

\* what input() can deliver: a line, or end of input, or an interrupt
StdinLines == { <<>>, <<"Y"," ">>, <<" ","Y","e","s">>, <<"n">> }
StdinEvents == [kind : {"line"}, text : StdinLines]
                 \cup [kind : {"EOFError", "KeyboardInterrupt"}, text : { <<>> }]
NoInput == [kind |-> "none", text |-> <<>>]

\* a directory that does not exist
MissingDir == <<"q">>

\* script paths given on the command line: without a directory part, in an
\* existing directory, in a directory that does not exist
CliScripts == {AppPy, Join(<<"p">>, AppPy), Join(MissingDir, AppPy)}

\* what the file dialog returns: nothing, or an absolute path
DialogPicks == { <<>>, Join(<<"p">>, AppPy) }

\* os.listdir(current_dir): the tool's own file is always there
DirListings ==
    { <<CompilerPy>>,
      <<CompilerPy, MainPy>>, <<MainPy, CompilerPy>>,
      <<CompilerPy, AppPy>>, <<AppPy, CompilerPy>>,
      <<NotesTxt, AppPy, CompilerPy>>,
      <<MainPy, AppPy, CompilerPy>>, <<AppPy, MainPy, CompilerPy>> }


-----------------------------------------------------------------------------
(* DependencyManager *)

\* check_package_installed, line 34: the module name handed to __import__
ImportName(package_name) == Replace(Lower(package_name), "-", "_")

\* a parser that keeps option lines such as '-e .'
ParseLine_KeepsOptions(raw) ==
    LET line == Strip(raw)
    IN  IF line = <<>> \/ StartsWith(line, <<"#">>)
        THEN <<>>
        ELSE Strip(SplitFirst(SplitFirst(SplitFirst(line, <<">","=">>),
                                         <<"=","=">>), <<"<","=">>))

\* parse_requirements_file, lines 79-86: the name one line contributes
\* (<<>> when the line contributes none)
ParseLine(raw) ==
    LET line == Strip(raw)
    IN  IF line = <<>> \/ StartsWith(line, <<"#">>) \/ StartsWith(line, <<"-">>)
        THEN <<>>
        ELSE Strip(SplitFirst(SplitFirst(SplitFirst(line, <<">","=">>),
                                         <<"=","=">>), <<"<","=">>))

\* parse_requirements_file
RECURSIVE ParseLines(_)
ParseLines(lines) ==
    IF lines = <<>> THEN <<>>
    ELSE LET name == ParseLine(Head(lines))
         IN  IF name = <<>> THEN ParseLines(Tail(lines))
             ELSE <<name>> \o ParseLines(Tail(lines))

parse_requirements_file(exists, lines) ==
    IF exists THEN ParseLines(lines) ELSE <<>>

\* line 157: the list without the packaging tool
WithoutPyInstaller(packages) ==
    SelectSeq(packages, LAMBDA pkg : Lower(pkg) # PyInstallerName)

\* ensure_project_dependencies, lines 147-169: required_packages as the
\* probing loop of line 172 sees it.  The filtered list of line 157 only
\* decides the early return of line 159; lines 162-167 locate and parse the
\* manifest again and overwrite it.
ProjectRequired(exists, lines) ==
    LET first == parse_requirements_file(exists, lines)
        filtered == WithoutPyInstaller(first)
        again == parse_requirements_file(exists, lines)
    IN  IF ~exists \/ first = <<>> \/ filtered = <<>> THEN <<>> ELSE again

\* every import name a probe can ask for
EnvNames ==
    ({ImportName(REQUIRED_PACKAGES[i]) : i \in DOMAIN REQUIRED_PACKAGES}
        \cup {ImportName(ParseLine(l)) : l \in ManifestLineSet}) \ { <<>> }

\* __import__(name) as the environment answers it: a name not looked at yet
\* may import, be absent, or raise something other than ImportError; a name
\* pip has just reported installed may import or still be absent under the
\* guessed module name; otherwise the answer repeats.
ProbeOutcomes(name) ==
    CASE env[name] = "unknown" -> {"ok", "missing", "broken"}
      [] env[name] = "installed" -> {"ok", "missing"}
      [] OTHER -> {env[name]}


\* check_package_installed, lines 32-38: True, False, or the exception of
\* __import__ passed on when it is not an ImportError
check_package_installed(outcome) ==
    CASE outcome = "ok" -> "true"
      [] outcome = "missing" -> "false"
      [] OTHER -> "raised"

\* what the pip subprocess can do: exit 0, exit non-zero, fail to start
PipOutcomes == {"exit0", "nonzero", "spawn_error"}

\* install_package, lines 51-61: True only when check_call returns
install_package(outcome) == outcome = "exit0"

\* a consent gate that also takes a single argument for the interactive mode
IsAutoMode_OneArgument(n) == n <= 1

\* line 187: len(sys.argv) == 1
IsAutoMode(n) == n = 0

\* line 189-190: the answer, trimmed and lower-cased, is y, yes or empty
ConsentGiven(text) == Lower(Strip(text)) \in ConsentAccept

\* a confirmation that takes the empty line for a yes as well
SaidYes_OrEmptyLine(text) == Lower(Strip(text)) \in { <<"y">>, <<>> }

\* lines 523-524 and 534-536: the answer, trimmed and lower-cased, is y
SaidYes(text) == Lower(Strip(text)) = <<"y">>

\* find_any_python_file, lines 437-442: is this directory entry eligible
Eligible(file) ==
    /\ EndsWith(file, DotPy)
    /\ file # OwnFile
    /\ ~StartsWith(file, CompilerPrefix)

\* find_any_python_file: the first eligible entry of the listing, or <<>>
find_any_python_file(listing) ==
    LET at == {i \in DOMAIN listing : Eligible(listing[i])}
    IN  IF at = {} THEN <<>>
        ELSE listing[CHOOSE i \in at : \A j \in at : i <= j]

\* a main that exits 0 whatever compile returned
ExitStatus_AlwaysZero(success) == 0

\* main, lines 560 and 565-569: the exit status for a compile result
ExitStatus(success) == IF success = "true" THEN 0 ELSE 1

\* the interpreter's exit status for an exception nothing handles
UncaughtExit(kind) == IF kind = "KeyboardInterrupt" THEN {1, 130} ELSE {1}

NoCmd == [name |-> <<>>, hidden |-> {}, script |-> <<>>]

-----------------------------------------------------------------------------
(* ImportAnalyzer *)

\* node.module of 'from . import x'
NoModule == "None"

\* syntax tree nodes: 'import a, b', 'from m import x', a statement with a
\* body (def, if, try, class), any other statement
Imp(names) == [kind |-> "Import", names |-> names, module |-> NoModule, body |-> <<>>]
From(module) == [kind |-> "ImportFrom", names |-> <<>>, module |-> module, body |-> <<>>]
Def(body) == [kind |-> "FunctionDef", names |-> <<>>, module |-> NoModule, body |-> body]
Other == [kind |-> "Expr", names |-> <<>>, module |-> NoModule, body |-> <<>>]

\* a file open() or ast.parse() fails on
Unparsable == [ok |-> FALSE, tree |-> <<>>]

Source(tree) == [ok |-> TRUE, tree |-> tree]

\* the source files of the model
SrcNoImports == Source(<<Other, Def(<<Other>>)>>)
SrcEntry == Source(<<Imp(<<"os", "json">>), Other, Imp(<<"requests">>)>>)
SrcNested == Source(<<Def(<<Imp(<<"numpy">>), Def(<<From("numpy")>>)>>), From(NoModule)>>)
SrcDotted == Source(<<Imp(<<"os.path">>), From("flask"), Imp(<<"flask">>)>>)

FileContents == {Unparsable, SrcNoImports, SrcEntry, SrcNested, SrcDotted}

\* most files of a directory
MaxFiles == 3

\* directory entries: a file name and what the file holds
DirEntries ==
    [name : {MainPy, AppPy, UtilPy, CompilerPy}, content : FileContents]
        \cup [name : {NotesTxt}, content : {Unparsable}]

NamesIn(dir) == {dir[i].name : i \in DOMAIN dir}

\* directories of at most n files, in os.listdir order
RECURSIVE DirsUpTo(_)
DirsUpTo(n) ==
    IF n = 0 THEN { <<>> }
    ELSE LET shorter == DirsUpTo(n - 1)
         IN  shorter \cup UNION { {Append(d, e) : e \in {x \in DirEntries :
                                                           x.name \notin NamesIn(d)}} :
                                   d \in shorter }

\* the script directory a compile meets: the script alone without imports,
\* or the script with imports next to the tool's own file and one more module
ProjectDirs(script) ==
    { << [name |-> BaseName(script), content |-> SrcNoImports] >>,
      << [name |-> CompilerPy, content |-> SrcNested],
         [name |-> BaseName(script), content |-> SrcEntry],
         [name |-> IF BaseName(script) = MainPy THEN AppPy ELSE MainPy,
          content |-> SrcDotted] >> }

\* the imports and the local modules before any analysis
NoAnalysis ==
    [main_imports |-> {}, local_modules |-> <<>>, all_imports |-> {},
     external_imports |-> {}, local_module_names |-> <<>>]

\* open(path).read() and ast.parse: the file of that name in the directory
ReadFile(dir, name) ==
    IF name \in NamesIn(dir)
    THEN dir[CHOOSE i \in DOMAIN dir : dir[i].name = name].content
    ELSE Unparsable

\* a walk that looks at the statements of the module body only
RECURSIVE Walk_TopLevelOnly(_)
Walk_TopLevelOnly(queue) ==
    IF queue = <<>> THEN <<>>
    ELSE <<Head(queue)>> \o Walk_TopLevelOnly(Tail(queue))

\* ast.walk(tree), line 232: breadth first over every node
RECURSIVE Walk(_)
Walk(queue) ==
    IF queue = <<>> THEN <<>>
    ELSE <<Head(queue)>> \o Walk(Tail(queue) \o Head(queue).body)

\* extract_imports, lines 234-240: what one node appends to imports
NodeImports(node) ==
    CASE node.kind = "Import" -> node.names
      [] node.kind = "ImportFrom" ->
            IF node.module # NoModule THEN <<node.module>> ELSE <<>>
      [] OTHER -> <<>>

\* extract_imports, lines 230-240: the list imports
RECURSIVE ImportsOf(_)
ImportsOf(nodes) ==
    IF nodes = <<>> THEN <<>>
    ELSE NodeImports(Head(nodes)) \o ImportsOf(Tail(nodes))

\* an extraction that reports the failure as if it were an import
extract_imports_ErrorAsImport(content) ==
    IF content.ok
    THEN LET imports == ImportsOf(Walk(content.tree))
         IN  {imports[i] : i \in DOMAIN imports}
    ELSE {"error"}

\* extract_imports, lines 225-246: list(set(imports)), [] on any exception
extract_imports(content) ==
    IF content.ok
    THEN LET imports == ImportsOf(Walk(content.tree))
         IN  {imports[i] : i \in DOMAIN imports}
    ELSE {}

\* a module search that takes the compiler's own files for local modules
find_local_modules_KeepsCompiler(dir, main_script_path) ==
    LET script_dir == DirName(main_script_path)
        keep == SelectSeq(dir, LAMBDA e :
                    /\ EndsWith(e.name, DotPy)
                    /\ e.name # BaseName(main_script_path))
    IN  [i \in DOMAIN keep |-> Join(script_dir, keep[i].name)]

\* find_local_modules, lines 259-268
find_local_modules(dir, main_script_path) ==
    LET script_dir == DirName(main_script_path)
        keep == SelectSeq(dir, LAMBDA e :
                    /\ EndsWith(e.name, DotPy)
                    /\ e.name # BaseName(main_script_path)
                    /\ ~StartsWith(e.name, CompilerPrefix))
    IN  [i \in DOMAIN keep |-> Join(script_dir, keep[i].name)]

\* analyze_dependencies, line 298: the imports outside the allowlist
external_imports(all_imports) == all_imports \ stdlib_modules

\* analyze_dependencies, lines 282-306
analyze_dependencies(dir, main_script_path) ==
    LET main_imports == extract_imports(ReadFile(dir, BaseName(main_script_path)))
        local_modules == find_local_modules(dir, main_script_path)
        module_imports == [i \in DOMAIN local_modules |->
                              extract_imports(ReadFile(dir, BaseName(local_modules[i])))]
        all_imports == main_imports
                          \cup UNION {module_imports[i] : i \in DOMAIN local_modules}
    IN  [main_imports |-> main_imports,
         local_modules |-> local_modules,
         all_imports |-> all_imports,
         external_imports |-> external_imports(all_imports),
         local_module_names |-> [i \in DOMAIN local_modules |-> BaseName(local_modules[i])]]

-----------------------------------------------------------------------------
(* The run *)

invocation == <<argc, manifestExists, manifestLines>>
loopVars == <<required, missing, idx, successCount>>
toolVars == <<files, analysis, external, cmd, toolResult, specFile, buildDir, cleanupRuns>>
endVars == <<fault, exitCode>>

Init ==
    /\ argc \in ArgCounts
    /\ manifestExists \in BOOLEAN
    /\ manifestLines \in Manifests
    /\ ~manifestExists => manifestLines = <<>>
    /\ env = [n \in EnvNames |-> "unknown"]
    /\ pc = "main"
    /\ mainExists = "unknown"
    /\ scriptPath = <<>>
    /\ stdin = NoInput
    /\ prompts = <<>>
    /\ installLog = <<>>
    /\ callLog = <<>>
    /\ required = <<>>
    /\ missing = <<>>
    /\ idx = 0
    /\ successCount = 0
    /\ compRet = "none"
    /\ projRet = "none"
    /\ files = <<>>
    /\ analysis = NoAnalysis
    /\ external = {}
    /\ cmd = NoCmd
    /\ toolResult = "none"
    /\ specFile \in BOOLEAN      \* an earlier run may have left its artifacts
    /\ buildDir = specFile
    /\ cleanupRuns = 0
    /\ result = "none"
    /\ fault = "none"
    /\ exitCode = -1

\* main, lines 555-564
Main ==
    /\ pc = "main"
    /\ IF argc > 0
       THEN \E p \in CliScripts :
               /\ DirName(p) = MissingDir => ~manifestExists
               /\ scriptPath' = p
               /\ pc' = "compile"
       ELSE scriptPath' = scriptPath /\ pc' = "find_main"
    /\ UNCHANGED <<invocation, env, mainExists, stdin, prompts, installLog, callLog,
                   loopVars, compRet, projRet, toolVars, result, endVars>>

\* run_auto_mode, line 484: find_main_py
FindMainPy ==
    /\ pc = "find_main"
    /\ \E there \in BOOLEAN :
          /\ mainExists' = IF there THEN "yes" ELSE "no"
          /\ scriptPath' = IF there THEN Join(current_dir, MainPy) ELSE <<>>
          /\ pc' = IF there THEN "ask_main" ELSE "find_any"
    /\ UNCHANGED <<invocation, env, stdin, prompts, installLog, callLog, loopVars,
                   compRet, projRet, toolVars, result, endVars>>

\* _ask_for_compilation, called at lines 485 and 490.  input() is not inside
\* any try: end of input or an interrupt leaves main() as an exception.
AskForCompilation ==
    /\ pc \in {"ask_main", "ask_any"}
    /\ \E ev \in StdinEvents :
          /\ stdin' = ev
          /\ IF ev.kind # "line"
             THEN /\ prompts' = Append(prompts, [kind |-> "compile", file |-> scriptPath,
                                                 answer |-> ev.kind])
                  /\ fault' = ev.kind
                  /\ exitCode' \in UncaughtExit(ev.kind)
                  /\ pc' = "exited"
             ELSE /\ prompts' = Append(prompts,
                        [kind |-> "compile", file |-> scriptPath,
                         answer |-> IF SaidYes(ev.text) THEN "accept" ELSE "decline"])
                  /\ pc' = IF SaidYes(ev.text) THEN "compile"
                           ELSE IF pc = "ask_main" THEN "find_any" ELSE "manual"
                  /\ UNCHANGED endVars
    /\ UNCHANGED <<invocation, env, mainExists, scriptPath, installLog, callLog, loopVars,
                   compRet, projRet, toolVars, result>>

\* run_auto_mode, line 489: find_any_python_file on the listing of current_dir
FindAnyPythonFile ==
    /\ pc = "find_any"
    /\ \E listing \in DirListings :
          /\ (mainExists = "yes") <=> (\E i \in DOMAIN listing : listing[i] = MainPy)
          /\ LET file == find_any_python_file(listing)
             IN  /\ scriptPath' = IF file = <<>> THEN <<>> ELSE Join(current_dir, file)
                 /\ pc' = IF file = <<>> THEN "manual" ELSE "ask_any"
    /\ UNCHANGED <<invocation, env, mainExists, stdin, prompts, installLog, callLog,
                   loopVars, compRet, projRet, toolVars, result, endVars>>

\* _manual_file_selection, lines 533-536 and 543-545
ManualFileSelection ==
    /\ pc = "manual"
    /\ \E ev \in StdinEvents :
          /\ stdin' = ev
          /\ IF ev.kind # "line"
             THEN /\ prompts' = Append(prompts, [kind |-> "manual", file |-> <<>>,
                                                 answer |-> ev.kind])
                  /\ fault' = ev.kind
                  /\ exitCode' \in UncaughtExit(ev.kind)
                  /\ pc' = "exited"
                  /\ UNCHANGED result
             ELSE /\ prompts' = Append(prompts,
                        [kind |-> "manual", file |-> <<>>,
                         answer |-> IF SaidYes(ev.text) THEN "accept" ELSE "decline"])
                  /\ pc' = IF SaidYes(ev.text) THEN "dialog" ELSE "returned"
                  /\ result' = IF SaidYes(ev.text) THEN result ELSE "false"
                  /\ UNCHANGED endVars
    /\ UNCHANGED <<invocation, env, mainExists, scriptPath, installLog, callLog, loopVars,
                   compRet, projRet, toolVars>>

\* _manual_file_selection, lines 537-542: select_file_dialog
SelectFileDialog ==
    /\ pc = "dialog"
    /\ \E pick \in DialogPicks :
          /\ scriptPath' = pick
          /\ pc' = IF pick = <<>> THEN "returned" ELSE "compile"
          /\ result' = IF pick = <<>> THEN "false" ELSE result
    /\ UNCHANGED <<invocation, env, mainExists, stdin, prompts, installLog, callLog,
                   loopVars, compRet, projRet, toolVars, endVars>>


\* compile_to_exe, lines 324-329: entry, up to the call of
\* ensure_compiler_dependencies
CompileEnter ==
    /\ pc = "compile"
    /\ callLog' = Append(callLog, "ensure_compiler_dependencies")
    /\ required' = REQUIRED_PACKAGES
    /\ missing' = <<>>
    /\ idx' = 1
    /\ pc' = "comp_check"
    /\ UNCHANGED <<invocation, env, mainExists, scriptPath, stdin, prompts, installLog,
                   successCount, compRet, projRet, toolVars, result, endVars>>

\* a compile_to_exe that ignores the compiler step's result
AfterCompilerDeps_Ignored(ret) == "proj_locate"

\* compile_to_exe, lines 329-330: where it goes on the compiler step's result
AfterCompilerDeps(ret) == IF ret = "true" THEN "proj_locate" ELSE "returned"

\* compile_to_exe, lines 333-334: where it goes on the project step's result
AfterProjectDeps(ret) == IF ret = "true" THEN "analyze" ELSE "returned"

\* a compile_to_exe whose early exits return nothing
ResultAt_ReturnsNothing(where, old) == old

\* compile_to_exe: the value it returns when it stops at `where`
ResultAt(where, old) == IF where = "returned" THEN "false" ELSE old

\* a compiler step that goes on after a failed install
OnCompilerInstall_GoesOn(ok) == "continue"

\* ensure_compiler_dependencies, lines 135-138: a failed install returns
\* False at once, a successful one lets the loop go on
OnCompilerInstall(ok) == IF ok THEN "continue" ELSE "false"

\* an install loop that gives up at the first failed install
OnProjectInstall_StopsAtFailure(ok) == IF ok THEN "continue" ELSE "false"

\* ensure_project_dependencies, lines 199-200: the loop goes on whatever
\* install_package returned
OnProjectInstall(ok) == "continue"

\* a project step that reports a partly failed batch as a failure
ProjectInstallResult_AllOrNothing(count, wanted) ==
    IF count = wanted THEN "true" ELSE "false"

\* ensure_project_dependencies, lines 202-208: True on both branches
ProjectInstallResult(count, wanted) == IF count = wanted THEN "true" ELSE "true"

\* a consent prompt that takes every answered line for a yes
OnConsent_AnyLine(ev) == IF ev.kind # "line" THEN "false" ELSE "continue"

\* ensure_project_dependencies, lines 190-194: what an answer to the consent
\* prompt leads to
OnConsent(ev) ==
    IF ev.kind # "line" THEN "false"
    ELSE IF ConsentGiven(ev.text) THEN "continue" ELSE "false"

\* ensure_compiler_dependencies, lines 120-125: one turn of the probing loop,
\* and the return of line 125 after the last turn.  An exception of the probe
\* ends compile_to_exe in the handler of line 384.
CompilerCheck ==
    /\ pc = "comp_check"
    /\ LET pkg == required[idx]
           name == ImportName(pkg)
       IN  \E out \in ProbeOutcomes(name) :
              LET found == check_package_installed(out)
                  miss == IF found = "false" THEN Append(missing, pkg) ELSE missing
              IN  /\ env' = [env EXCEPT ![name] = out]
                  /\ IF found = "raised"
                     THEN /\ compRet' = "raised"
                          /\ result' = "false"
                          /\ pc' = "returned"
                          /\ UNCHANGED <<missing, idx>>
                     ELSE /\ missing' = miss
                          /\ IF idx < Len(required)
                             THEN idx' = idx + 1 /\ pc' = pc /\ UNCHANGED <<compRet, result>>
                             ELSE IF miss = <<>>
                                  THEN /\ compRet' = "true"
                                       /\ pc' = AfterCompilerDeps("true")
                                       /\ result' = ResultAt(pc', result)
                                       /\ idx' = idx
                                  ELSE /\ idx' = 1
                                       /\ pc' = "comp_install"
                                       /\ UNCHANGED <<compRet, result>>
    /\ UNCHANGED <<invocation, mainExists, scriptPath, stdin, prompts, installLog, callLog,
                   required, successCount, projRet, toolVars, endVars>>

\* ensure_compiler_dependencies, lines 134-140: one turn of the install loop;
\* no prompt comes before it
CompilerInstall ==
    /\ pc = "comp_install"
    /\ LET pkg == missing[idx]
       IN  \E out \in PipOutcomes :
              LET ok == install_package(out)
                  ret == IF OnCompilerInstall(ok) = "false" THEN "false"
                         ELSE IF idx < Len(missing) THEN "none" ELSE "true"
              IN  /\ installLog' = Append(installLog,
                                     [step |-> "compiler", package |-> pkg, ok |-> ok])
                  /\ env' = IF out = "exit0"
                            THEN [env EXCEPT ![ImportName(pkg)] = "installed"] ELSE env
                  /\ IF ret = "none"
                     THEN idx' = idx + 1 /\ pc' = pc /\ UNCHANGED <<compRet, result>>
                     ELSE /\ idx' = idx
                          /\ compRet' = ret
                          /\ pc' = AfterCompilerDeps(ret)
                          /\ result' = ResultAt(pc', result)
    /\ UNCHANGED <<invocation, mainExists, scriptPath, stdin, prompts, callLog, required,
                   missing, successCount, projRet, toolVars, endVars>>

\* ensure_project_dependencies, lines 147-169: locating, parsing, filtering,
\* and locating and parsing again; every early return is True
ProjectLocate ==
    /\ pc = "proj_locate"
    /\ callLog' = Append(callLog, "ensure_project_dependencies")
    /\ LET req == ProjectRequired(manifestExists, manifestLines)
       IN  /\ required' = req
           /\ missing' = <<>>
           /\ idx' = 1
           /\ successCount' = 0
           /\ IF req = <<>>
              THEN /\ projRet' = "true"
                   /\ pc' = AfterProjectDeps("true")
                   /\ result' = ResultAt(pc', result)
              ELSE projRet' = projRet /\ pc' = "proj_check" /\ UNCHANGED result
    /\ UNCHANGED <<invocation, env, mainExists, scriptPath, stdin, prompts, installLog,
                   compRet, toolVars, endVars>>

\* ensure_project_dependencies, lines 171-187: one turn of the probing loop;
\* after the last turn the return of line 178, or the way to the prompt or
\* to the installs
ProjectCheck ==
    /\ pc = "proj_check"
    /\ LET pkg == required[idx]
           name == ImportName(pkg)
       IN  \E out \in ProbeOutcomes(name) :
              LET found == check_package_installed(out)
                  miss == IF found = "false" THEN Append(missing, pkg) ELSE missing
              IN  /\ env' = [env EXCEPT ![name] = out]
                  /\ IF found = "raised"
                     THEN /\ projRet' = "raised"
                          /\ result' = "false"
                          /\ pc' = "returned"
                          /\ UNCHANGED <<missing, idx>>
                     ELSE /\ missing' = miss
                          /\ IF idx < Len(required)
                             THEN idx' = idx + 1 /\ pc' = pc /\ UNCHANGED <<projRet, result>>
                             ELSE /\ idx' = 1
                                  /\ IF miss = <<>>
                                     THEN /\ projRet' = "true"
                                          /\ pc' = AfterProjectDeps("true")
                                          /\ result' = ResultAt(pc', result)
                                     ELSE /\ pc' = IF IsAutoMode(argc) THEN "proj_consent"
                                                   ELSE "proj_install"
                                          /\ UNCHANGED <<projRet, result>>
    /\ UNCHANGED <<invocation, mainExists, scriptPath, stdin, prompts, installLog, callLog,
                   required, successCount, compRet, toolVars, endVars>>

\* ensure_project_dependencies, lines 188-194: the consent prompt; a refusal,
\* end of input and an interrupt all return False
ProjectConsent ==
    /\ pc = "proj_consent"
    /\ \E ev \in StdinEvents :
          LET answer == IF ev.kind # "line" THEN ev.kind
                        ELSE IF OnConsent(ev) = "continue" THEN "accept" ELSE "decline"
          IN  /\ stdin' = ev
              /\ prompts' = Append(prompts, [kind |-> "consent", file |-> scriptPath,
                                             answer |-> answer])
              /\ IF OnConsent(ev) = "continue"
                 THEN pc' = "proj_install" /\ UNCHANGED <<projRet, result>>
                 ELSE /\ projRet' = "false"
                      /\ pc' = AfterProjectDeps("false")
                      /\ result' = ResultAt(pc', result)
    /\ UNCHANGED <<invocation, env, mainExists, scriptPath, installLog, callLog, loopVars,
                   compRet, toolVars, endVars>>

\* ensure_project_dependencies, lines 197-208: one turn of the install loop,
\* and the return after the last turn
ProjectInstall ==
    /\ pc = "proj_install"
    /\ LET pkg == missing[idx]
       IN  \E out \in PipOutcomes :
              LET ok == install_package(out)
                  count == IF ok THEN successCount + 1 ELSE successCount
                  ret == IF OnProjectInstall(ok) = "false" THEN "false"
                         ELSE IF idx < Len(missing) THEN "none"
                         ELSE ProjectInstallResult(count, Len(missing))
              IN  /\ installLog' = Append(installLog,
                                     [step |-> "project", package |-> pkg, ok |-> ok])
                  /\ env' = IF out = "exit0"
                            THEN [env EXCEPT ![ImportName(pkg)] = "installed"] ELSE env
                  /\ successCount' = count
                  /\ IF ret = "none"
                     THEN idx' = idx + 1 /\ pc' = pc /\ UNCHANGED <<projRet, result>>
                     ELSE /\ idx' = idx
                          /\ projRet' = ret
                          /\ pc' = AfterProjectDeps(ret)
                          /\ result' = ResultAt(pc', result)
    /\ UNCHANGED <<invocation, mainExists, scriptPath, stdin, prompts, callLog, required,
                   missing, compRet, toolVars, endVars>>

\* find_local_modules, line 262: os.listdir of the script's directory fails
\* for the empty directory name of a script path without a directory part
\* and for a directory that does not exist
ListDirFails(script) == DirName(script) \in {<<>>, MissingDir}

\* compile_to_exe, lines 338: analyze_dependencies; the FileNotFoundError of
\* os.listdir ends compile_to_exe in the handler of line 381
Analyze ==
    /\ pc = "analyze"
    /\ callLog' = Append(callLog, "analyze_dependencies")
    /\ IF ListDirFails(scriptPath)
       THEN result' = "false" /\ pc' = "returned" /\ UNCHANGED <<files, analysis, external>>
       ELSE \E dir \in ProjectDirs(scriptPath) :
               /\ files' = dir
               /\ analysis' = analyze_dependencies(dir, scriptPath)
               /\ external' = analysis'.external_imports
               /\ pc' = "run_tool"
               /\ UNCHANGED result
    /\ UNCHANGED <<invocation, env, mainExists, scriptPath, stdin, prompts, installLog,
                   loopVars, compRet, projRet, cmd, toolResult, specFile, buildDir,
                   cleanupRuns, endVars>>

\* what subprocess.run(cmd, check=True) can do: return, raise
\* CalledProcessError, raise FileNotFoundError
ToolOutcomes == {"exit0", "nonzero", "notfound"}

\* a compile_to_exe that cleans up after a failed run too
AfterTool_AlwaysCleanup(out) == "cleanup"

\* compile_to_exe, lines 368-386: cleanup follows a run that returned; both
\* handlers return False without it
AfterTool(out) == IF out = "exit0" THEN "cleanup" ELSE "returned"

\* compile_to_exe, lines 341-368 and 377-383: the command and its run.  A
\* run that exits 0 has written the spec file and the build directory; a
\* run that exits non-zero may have.
RunPackaging ==
    /\ pc = "run_tool"
    /\ callLog' = Append(callLog, "pyinstaller")
    /\ cmd' = [name |-> SplitExtRoot(BaseName(scriptPath)), hidden |-> external,
               script |-> scriptPath]
    /\ \E out \in ToolOutcomes :
          /\ toolResult' = out
          /\ pc' = AfterTool(out)
          /\ result' = ResultAt(pc', result)
          /\ CASE out = "exit0" -> specFile' = TRUE /\ buildDir' = TRUE
               [] out = "nonzero" ->
                    \E left \in BOOLEAN :
                       specFile' = (specFile \/ left) /\ buildDir' = (buildDir \/ left)
               [] OTHER -> UNCHANGED <<specFile, buildDir>>
    /\ UNCHANGED <<invocation, env, mainExists, scriptPath, stdin, prompts, installLog,
                   loopVars, compRet, projRet, files, analysis, external, cleanupRuns,
                   endVars>>

\* how _cleanup_temp_files can go: both deletions work, os.remove raises,
\* shutil.rmtree raises
CleanupOutcomes == {"ok", "remove_fails", "rmtree_fails"}

\* a cleanup whose failed deletion would turn the compile into a failure
CleanupResult_FailsWithDeletion(out) == IF out = "ok" THEN "true" ELSE "false"

\* compile_to_exe, line 375, after _cleanup_temp_files, lines 404-406: the
\* deletion's exception is swallowed, compile_to_exe returns True
CleanupResult(out) == "true"

\* compile_to_exe, lines 370-375, and _cleanup_temp_files, lines 397-406: an
\* exception of os.remove skips rmtree; every exception is swallowed
Cleanup ==
    /\ pc = "cleanup"
    /\ callLog' = Append(callLog, "_cleanup_temp_files")
    /\ cleanupRuns' = cleanupRuns + 1
    /\ \E out \in CleanupOutcomes :
          /\ out = "remove_fails" => specFile
          /\ out = "rmtree_fails" => buildDir
          /\ specFile' = IF out = "remove_fails" THEN specFile ELSE FALSE
          /\ buildDir' = IF out = "ok" THEN FALSE ELSE buildDir
          /\ result' = CleanupResult(out)
    /\ pc' = "returned"
    /\ UNCHANGED <<invocation, env, mainExists, scriptPath, stdin, prompts, installLog,
                   loopVars, compRet, projRet, files, analysis, external, cmd,
                   toolResult, endVars>>

\* main, lines 560 and 565-569: the exit status
Exit ==
    /\ pc = "returned"
    /\ exitCode' = ExitStatus(result)
    /\ pc' = "exited"
    /\ UNCHANGED <<invocation, env, mainExists, scriptPath, stdin, prompts, installLog,
                   callLog, loopVars, compRet, projRet, toolVars, result, fault>>

Next ==
    \/ Main
    \/ FindMainPy
    \/ AskForCompilation
    \/ FindAnyPythonFile
    \/ ManualFileSelection
    \/ SelectFileDialog
    \/ CompileEnter
    \/ CompilerCheck
    \/ CompilerInstall
    \/ ProjectLocate
    \/ ProjectCheck
    \/ ProjectConsent
    \/ ProjectInstall
    \/ Analyze
    \/ RunPackaging
    \/ Cleanup
    \/ Exit

Spec == Init /\ [][Next]_vars


-----------------------------------------------------------------------------
(* parse_requirements_file on its own: one call, line by line *)

LineBlank == <<" ","\n">>
LineOption == <<"-","e"," ",".">>
LineTwoOps == <<"a","=","=","1",">","=","2">>
LineRange == <<"b","<","=","2",",",">","=","1">>
LineNoName == <<" ",">","=","1">>
LineUpTo == <<"c","<","=","1">>

\* the lines a requirements file is drawn from
ParseLineSet ==
    ManifestLineSet \cup {LineBlank, LineOption, LineTwoOps, LineRange, LineNoName, LineUpTo}

\* a six-line requirements file with a comment, a blank line and an option
ExampleManifest ==
    << <<"#"," ","c","o","m","m","e","n","t">>,
       <<>>,
       <<"f","l","a","s","k",">","=","2",".","0">>,
       <<"r","e","q","u","e","s","t","s","=","=","2",".","3","1",".","0">>,
       <<"-","e"," ",".">>,
       <<"c","l","i","c","k">> >>

\* the files parse_requirements_file is called on
ParseInputs == SeqsUpTo(ParseLineSet, MaxLines) \cup {ExampleManifest}

InitParse ==
    /\ argc = 1
    /\ manifestExists \in BOOLEAN
    /\ manifestLines \in ParseInputs
    /\ ~manifestExists => manifestLines = <<>>
    /\ env = [n \in EnvNames |-> "unknown"]
    /\ pc = "parse_open"
    /\ mainExists = "unknown"
    /\ scriptPath = <<>>
    /\ stdin = NoInput
    /\ prompts = <<>>
    /\ installLog = <<>>
    /\ callLog = <<>>
    /\ required = <<>>
    /\ missing = <<>>
    /\ idx = 0
    /\ successCount = 0
    /\ compRet = "none"
    /\ projRet = "none"
    /\ files = <<>>
    /\ analysis = NoAnalysis
    /\ external = {}
    /\ cmd = NoCmd
    /\ toolResult = "none"
    /\ specFile = FALSE
    /\ buildDir = FALSE
    /\ cleanupRuns = 0
    /\ result = "none"
    /\ fault = "none"
    /\ exitCode = -1

\* the variables parse_requirements_file does not touch
parseFrame ==
    <<invocation, env, mainExists, scriptPath, stdin, prompts, installLog, callLog,
      missing, successCount, compRet, projRet, toolVars, result, endVars>>

\* lines 74-77: packages = [], and the file is opened when it exists
ParseOpen ==
    /\ pc = "parse_open"
    /\ required' = <<>>
    /\ idx' = 0
    /\ pc' = IF manifestExists THEN "parse_loop" ELSE "parse_done"
    /\ UNCHANGED parseFrame

\* a handler that loses the names collected before the exception
OnReadError_DropsNames(packages) == <<>>

\* lines 90-93: the handler prints the error; packages is returned as it is
OnReadError(packages) == packages

\* lines 78-88: one turn of the loop over the file's lines
ParseReadLine ==
    /\ pc = "parse_loop"
    /\ idx < Len(manifestLines)
    /\ idx' = idx + 1
    /\ LET name == ParseLine(manifestLines[idx + 1])
       IN  required' = IF name = <<>> THEN required ELSE Append(required, name)
    /\ UNCHANGED <<pc, parseFrame>>

\* lines 78 and 90-93: reading the next line raises (a decoding or I/O
\* error); idx stays at the number of lines read before it
ParseReadError ==
    /\ pc = "parse_loop"
    /\ idx < Len(manifestLines)
    /\ required' = OnReadError(required)
    /\ pc' = "parse_done"
    /\ UNCHANGED <<idx, parseFrame>>

\* line 78: the file is exhausted; line 93
ParseEnd ==
    /\ pc = "parse_loop"
    /\ idx = Len(manifestLines)
    /\ pc' = "parse_done"
    /\ UNCHANGED <<required, idx, parseFrame>>

NextParse == ParseOpen \/ ParseReadLine \/ ParseReadError \/ ParseEnd

SpecParse == InitParse /\ [][NextParse]_vars

-----------------------------------------------------------------------------
(* analyze_dependencies on its own: one call on one directory *)

\* the main_script_path handed to analyze_dependencies
AnalysisScripts == {Join(current_dir, MainPy), Join(<<"p">>, AppPy)}

InitAnalyze ==
    /\ argc = 1
    /\ manifestExists = FALSE
    /\ manifestLines = <<>>
    /\ env = [n \in EnvNames |-> "unknown"]
    /\ pc = "analyze_call"
    /\ mainExists = "unknown"
    /\ scriptPath \in AnalysisScripts
    /\ stdin = NoInput
    /\ prompts = <<>>
    /\ installLog = <<>>
    /\ callLog = <<>>
    /\ required = <<>>
    /\ missing = <<>>
    /\ idx = 0
    /\ successCount = 0
    /\ compRet = "none"
    /\ projRet = "none"
    /\ files \in DirsUpTo(MaxFiles)
    /\ analysis = NoAnalysis
    /\ external = {}
    /\ cmd = NoCmd
    /\ toolResult = "none"
    /\ specFile = FALSE
    /\ buildDir = FALSE
    /\ cleanupRuns = 0
    /\ result = "none"
    /\ fault = "none"
    /\ exitCode = -1

\* analyze_dependencies, lines 282-306, on an existing directory
AnalyzeDirectory ==
    /\ pc = "analyze_call"
    /\ analysis' = analyze_dependencies(files, scriptPath)
    /\ external' = analysis'.external_imports
    /\ pc' = "analyzed"
    /\ UNCHANGED <<invocation, env, mainExists, scriptPath, stdin, prompts, installLog,
                   callLog, loopVars, compRet, projRet, files, cmd, toolResult,
                   specFile, buildDir, cleanupRuns, result, endVars>>

NextAnalyze == AnalyzeDirectory

SpecAnalyze == InitAnalyze /\ [][NextAnalyze]_vars

-----------------------------------------------------------------------------
(* Properties *)

Range(q) == {q[i] : i \in DOMAIN q}

\* the install_package calls of one step, in call order
InstallsOf(step) == SelectSeq(installLog, LAMBDA e : e.step = step)

PackagesOf(log) == [i \in DOMAIN log |-> log[i].package]

ConsentPrompts == SelectSeq(prompts, LAMBDA q : q.kind = "consent")

\* the consent prompt was the last read of the console
ConsentAnswered == prompts # <<>> /\ prompts[Len(prompts)].kind = "consent"

\* C1: the packaging tool runs only after ensure_compiler_dependencies and
\* then ensure_project_dependencies have both returned True, in that order;
\* when the compiler step fails nothing else of compile runs, when the
\* project step fails neither the analysis nor the packaging tool runs, and
\* compile returns False in both cases.
C1_DependencyStepsGatePackaging ==
    /\ "pyinstaller" \in Range(callLog) =>
          /\ compRet = "true" /\ projRet = "true"
          /\ SubSeq(callLog, 1, 4) = <<"ensure_compiler_dependencies",
                                       "ensure_project_dependencies",
                                       "analyze_dependencies", "pyinstaller">>
    /\ compRet \in {"false", "raised"} =>
          /\ callLog = <<"ensure_compiler_dependencies">>
          /\ toolResult = "none" /\ result = "false"
    /\ projRet \in {"false", "raised"} =>
          /\ callLog = <<"ensure_compiler_dependencies", "ensure_project_dependencies">>
          /\ compRet = "true"
          /\ toolResult = "none" /\ result = "false"

C1_Witness ==
    /\ toolResult = "exit0" /\ compRet = "true" /\ projRet = "true"
    /\ InstallsOf("compiler") # <<>> /\ InstallsOf("project") # <<>>

\* C2: in a run without arguments with a declared package missing, a "n" at
\* the consent prompt makes ensure_project_dependencies return False with no
\* install attempted by it, and compile returns False without running the
\* packaging tool.
C2_DeclineAbortsBeforePackaging ==
    (ConsentAnswered /\ stdin = [kind |-> "line", text |-> <<"n">>]) =>
        /\ argc = 0 /\ missing # <<>>
        /\ projRet = "false"
        /\ InstallsOf("project") = <<>>
        /\ "pyinstaller" \notin Range(callLog) /\ toolResult = "none"
        /\ result = "false"
        /\ pc = "exited" => exitCode = 1

C2_Witness ==
    /\ ConsentAnswered /\ stdin = [kind |-> "line", text |-> <<"n">>]
    /\ pc = "exited" /\ projRet = "false" /\ Len(missing) = 2


ProjectStarted == "ensure_project_dependencies" \in Range(callLog)

\* the console lines of the model that say yes, or say nothing
AcceptingLines == { <<>>, <<"Y"," ">>, <<" ","Y","e","s">> }

\* C3: without arguments and with project packages missing, exactly one
\* consent prompt is issued and no project install happens before it is
\* answered with an accepting line, the empty line being one; with one or
\* more arguments no prompt is ever issued and every missing package is
\* handed to install_package.
C3_ConsentOnlyWithoutArguments ==
    LET done == PackagesOf(InstallsOf("project"))
        found == ProjectStarted /\ missing # <<>> /\ projRet \in {"true", "false"}
    IN  /\ Len(ConsentPrompts) <= 1
        /\ argc = 0 =>
              /\ pc = "proj_consent" => done = <<>> /\ ConsentPrompts = <<>>
              /\ (pc = "proj_install" \/ done # <<>>) =>
                    /\ Len(ConsentPrompts) = 1 /\ ConsentAnswered
                    /\ stdin.kind = "line" /\ stdin.text \in AcceptingLines
              /\ (ConsentAnswered /\ stdin = [kind |-> "line", text |-> <<>>]) =>
                    /\ projRet # "false"
                    /\ pc = "proj_install" \/ done # <<>>
              /\ found => Len(ConsentPrompts) = 1
        /\ argc > 0 =>
              /\ prompts = <<>>
              /\ found => projRet = "true" /\ done = missing

C3_Witness ==
    /\ argc = 0 /\ ConsentAnswered /\ stdin = [kind |-> "line", text |-> <<>>]
    /\ Len(InstallsOf("project")) = 2 /\ projRet = "true"

\* C4: ensure_project_dependencies leaves the packaging tool (pyinstaller, in
\* any letter case) out of what it considers: it is never in the project's
\* missing list and never handed to install_package by the project step.
C4_PackagingToolExcluded ==
    /\ ProjectStarted => \A i \in DOMAIN missing : Lower(missing[i]) # PyInstallerName
    /\ \A i \in DOMAIN InstallsOf("project") :
          Lower(InstallsOf("project")[i].package) # PyInstallerName

\* the declared packages the probe did not find (a package installed since
\* was one of them)
NotImportable(packages) ==
    SelectSeq(packages, LAMBDA pkg : env[ImportName(pkg)] \in {"missing", "installed"})

ToolImportName == ImportName(REQUIRED_PACKAGES[1])

\* C7: ensure_compiler_dependencies asks nothing in any invocation mode; with
\* the packaging tool importable it returns True without an install attempt;
\* with it missing it attempts the install; it returns False if and only if
\* an install attempt failed.
C7_CompilerStepInstallsWithoutConsent ==
    LET comp == InstallsOf("compiler")
        tool == ToolImportName
    IN  /\ ~ProjectStarted => ConsentPrompts = <<>>
        /\ Len(comp) <= Len(REQUIRED_PACKAGES)
        /\ (compRet = "false") <=> (\E i \in DOMAIN comp : ~comp[i].ok)
        /\ (compRet \in {"true", "false"} /\ comp = <<>>) =>
              compRet = "true" /\ env[tool] = "ok"
        /\ pc = "comp_install" => env[tool] = "missing" /\ comp = <<>>
        /\ pc = "proj_locate" =>
              /\ compRet = "true"
              /\ env[tool] = "ok" => comp = <<>>
              /\ env[tool] # "ok" => env[tool] = "installed" /\ Len(comp) = 1 /\ comp[1].ok
        /\ compRet = "false" => env[tool] = "missing"

C7_Witness ==
    /\ argc = 0 /\ pc = "proj_locate" /\ compRet = "true"
    /\ Len(InstallsOf("compiler")) = 1 /\ ConsentPrompts = <<>>

\* C8: every prompt takes closed input or an interrupt for a refusal, so no
\* run ends in an unhandled exception: every run that ends has a result and
\* exit status 0 or 1.
C8_NoInputIsARefusal ==
    /\ fault = "none"
    /\ pc = "exited" => result \in {"true", "false"} /\ exitCode \in {0, 1}

C10_CleanupOnlyAfterSuccess ==
    /\ [](/\ (cleanupRuns > 0 \/ "_cleanup_temp_files" \in Range(callLog)) =>
                toolResult = "exit0"
          /\ result = "false" => cleanupRuns = 0)
    /\ [][((specFile /\ ~specFile') \/ (buildDir /\ ~buildDir')) =>
             (pc = "cleanup" /\ toolResult = "exit0")]_vars

C10_Witness ==
    /\ pc = "exited" /\ toolResult = "nonzero" /\ result = "false"
    /\ specFile /\ buildDir /\ cleanupRuns = 0

\* C11: a deletion that fails in the cleanup never changes what compile
\* reports: once the packaging tool has exited with status 0, compile returns
\* success (and the process exits 0) whether the spec file, the build
\* directory, both or neither are still there after the cleanup.
C11_CleanupFailureKeepsSuccess ==
    (toolResult = "exit0" /\ pc \in {"returned", "exited"}) =>
        /\ cleanupRuns = 1
        /\ result = "true"
        /\ fault = "none"
        /\ pc = "exited" => exitCode = 0

C11_Witness ==
    /\ pc = "exited" /\ toolResult = "exit0" /\ cleanupRuns = 1
    /\ specFile /\ buildDir
    /\ result = "true" /\ exitCode = 0

\* the version operators, in the order the requirements parser looks for them
VersionOperators == << <<">","=">>, <<"=","=">>, <<"<","=">> >>

Occurs(s, op) == \E n \in 0..(Len(s) - Len(op)) : SubSeq(s, n + 1, n + Len(op)) = op

\* the text in front of the first occurrence of op in s
TextBefore(s, op) ==
    LET n == CHOOSE k \in 0..(Len(s) - Len(op)) :
                 /\ SubSeq(s, k + 1, k + Len(op)) = op
                 /\ \A m \in 0..(k - 1) : SubSeq(s, m + 1, m + Len(op)) # op
    IN  SubSeq(s, 1, n)

CutAt(s, op) == IF Occurs(s, op) THEN TextBefore(s, op) ELSE s

\* a line that contributes a name: not blank, no comment, no option
KeptLine(line) ==
    LET t == Strip(line) IN t # <<>> /\ t[1] \notin {"#", "-"}

\* the name by priority: the first operator of VersionOperators that occurs
\* anywhere in the line decides where the line is cut
PriorityName(line) ==
    LET t == Strip(line)
        hits == {k \in DOMAIN VersionOperators : Occurs(t, VersionOperators[k])}
    IN  IF hits = {} THEN t
        ELSE Strip(TextBefore(t, VersionOperators[CHOOSE k \in hits : \A j \in hits : k <= j]))

\* the name by successive cuts: at '>=', then what is left at '==', then
\* what is left at '<='
SuccessiveName(line) ==
    Strip(CutAt(CutAt(CutAt(Strip(line), VersionOperators[1]), VersionOperators[2]),
                VersionOperators[3]))

\* the names of the kept lines in file order, empty names dropped
NamesOf(lines, Rule(_)) ==
    SelectSeq([i \in DOMAIN lines |-> IF KeptLine(lines[i]) THEN Rule(lines[i]) ELSE <<>>],
              LAMBDA n : n # <<>>)

ExampleNames ==
    << <<"f","l","a","s","k">>, <<"r","e","q","u","e","s","t","s">>,
       <<"c","l","i","c","k">> >>

ParsedWhole == pc = "parse_done" /\ manifestExists /\ idx = Len(manifestLines)

\* C12 as stated: parse_requirements_file returns, in file order, one name
\* per line that is not blank, no comment and no option; the name is the
\* trimmed text before the first occurrence of the first of '>=', '==',
\* '<=' (in that priority) that occurs in the line, the whole line when none
\* occurs; empty names are dropped; the six-line example gives flask,
\* requests, click.
C12_NamesByOperatorPriority ==
    ParsedWhole =>
        /\ required = NamesOf(manifestLines, PriorityName)
        /\ manifestLines = ExampleManifest => required = ExampleNames

\* C12 amended: as above, but the line is cut three times in a row: at its
\* first '>=', then what is left at its first '==', then what is left at
\* its first '<=', so an operator of lower priority that stands in front of
\* one of higher priority still ends the name.
C12_NamesBySuccessiveCuts ==
    ParsedWhole =>
        /\ required = NamesOf(manifestLines, SuccessiveName)
        /\ manifestLines = ExampleManifest => required = ExampleNames

C12_Witness ==
    /\ ParsedWhole
    /\ manifestLines = <<LineRange, LineOption>>
    /\ required = << <<"b">> >>
    /\ PriorityName(LineRange) = <<"b","<","=","2",",">>

IsPrefix(p, q) == Len(p) <= Len(q) /\ SubSeq(q, 1, Len(p)) = p

\* C13: parse_requirements_file never raises: every call returns; for a path
\* that does not exist the result is empty; when reading fails part-way the
\* result is exactly the names of the lines read before the failure, a
\* prefix of the result for the whole file.
C13_ParseReturnsWhatWasRead ==
    /\ fault = "none"
    /\ pc # "parse_done" =>
          pc = "parse_open" \/ (pc = "parse_loop" /\ idx <= Len(manifestLines))
    /\ pc = "parse_done" =>
          /\ ~manifestExists => required = <<>>
          /\ manifestExists =>
                /\ required = parse_requirements_file(TRUE, SubSeq(manifestLines, 1, idx))
                /\ IsPrefix(required, parse_requirements_file(TRUE, manifestLines))

C13_Witness ==
    /\ pc = "parse_done" /\ manifestExists
    /\ manifestLines = <<LineFlask, LineClick>> /\ idx = 1
    /\ required = << <<"f","l","a","s","k">> >>

\* every node of a syntax tree, three levels deep
NodesOf(tree) ==
    LET l1 == Range(tree)
        l2 == UNION {Range(n.body) : n \in l1}
        l3 == UNION {Range(n.body) : n \in l2}
    IN  l1 \cup l2 \cup l3

\* the names a source file imports, as its statements state them
StatedImports(tree) ==
    UNION {Range(n.names) : n \in {x \in NodesOf(tree) : x.kind = "Import"}}
        \cup {n.module : n \in {x \in NodesOf(tree) :
                                   x.kind = "ImportFrom" /\ x.module # NoModule}}

\* the entry point's file in the analysed directory (none when it is absent)
EntryFiles == {e \in Range(files) : e.name = BaseName(scriptPath)}

\* the sibling source files other than the entry point and the files with
\* the reserved prefix
LocalFiles ==
    {e \in Range(files) :
        /\ EndsWith(e.name, DotPy)
        /\ e.name # BaseName(scriptPath)
        /\ ~(Len(e.name) >= 8 /\ SubSeq(e.name, 1, 8) = <<"c","o","m","p","i","l","e","r">>)}

\* C14: extract_imports never raises and yields nothing for a file that
\* cannot be read or parsed, so the analysis of a directory with such a
\* sibling completes and all_imports is the union of the imports of the
\* entry point and of every parsable local module.
C14_UnparsableFileAddsNothing ==
    /\ fault = "none"
    /\ pc = "analyzed" =>
          /\ (\A e \in EntryFiles : ~e.content.ok) => analysis.main_imports = {}
          /\ analysis.all_imports =
                UNION {StatedImports(e.content.tree) :
                          e \in {x \in EntryFiles \cup LocalFiles : x.content.ok}}

C14_Witness ==
    /\ pc = "analyzed"
    /\ \E e \in EntryFiles : e.content = SrcEntry
    /\ \E e \in LocalFiles : ~e.content.ok
    /\ \E e \in LocalFiles : e.content = SrcNested
    /\ analysis.all_imports = {"os", "json", "requests", "numpy"}

\* the allowlist of standard-library modules, as the specification lists it
Allowlist == {"os", "sys", "math", "json", "datetime", "time", "re", "random",
              "pathlib", "collections", "itertools", "functools"}

\* C15: every analysis has all_imports = the entry point's imports with the
\* imports of every local module (sibling source files, without the entry
\* point and the files with the 'compiler' prefix), and external_imports =
\* all_imports less the allowlist; an entry importing os, json, requests
\* with one local module importing numpy yields {requests, numpy}.
C15_AnalysisSets ==
    pc = "analyzed" =>
        /\ Range(analysis.local_modules) =
              {Join(DirName(scriptPath), e.name) : e \in LocalFiles}
        /\ analysis.all_imports =
              analysis.main_imports
                 \cup UNION {extract_imports(e.content) : e \in LocalFiles}
        /\ analysis.external_imports = analysis.all_imports \ Allowlist
        /\ analysis.external_imports \subseteq analysis.all_imports
        /\ analysis.external_imports \cap Allowlist = {}
        /\ ( /\ \E e \in EntryFiles : e.content = SrcEntry
             /\ {e.content : e \in LocalFiles} = {SrcNested} )
              => analysis.external_imports = {"requests", "numpy"}

C15_Witness ==
    /\ pc = "analyzed"
    /\ \E e \in EntryFiles : e.content = SrcEntry
    /\ {e.content : e \in LocalFiles} = {SrcNested}
    /\ \E e \in Range(files) : e.name = CompilerPy /\ e.content = SrcDotted
    /\ analysis.external_imports = {"requests", "numpy"}

\* C16: for a parsable file extract_imports returns exactly the set of the
\* names of its import statements and of the modules of its from-imports
\* that name a module, wherever they stand in the tree; a from-import
\* without a module adds nothing; a file without imports yields the empty
\* set.
C16_ExtractsEveryImportStatement ==
    pc = "analyzed" =>
        \A e \in EntryFiles :
            e.content.ok =>
                /\ analysis.main_imports = StatedImports(e.content.tree)
                /\ e.content = SrcNoImports => analysis.main_imports = {}

C16_Witness ==
    /\ pc = "analyzed"
    /\ \E e \in EntryFiles : e.content = SrcNested
    /\ analysis.main_imports = {"numpy"}

\* the dotted names among the module names of the model
DottedNames == {"os.path"}

\* C19: every name extract_imports returns is a top-level module name, so
\* 'import os.path' counts as the allowlisted os and is not among the
\* external imports.
C19_OnlyTopLevelNames ==
    pc = "analyzed" =>
        /\ analysis.main_imports \cap DottedNames = {}
        /\ analysis.all_imports \cap DottedNames = {}
        /\ "os.path" \notin analysis.external_imports

\* how often step occurs in a log
Count(log, step) == Cardinality({i \in DOMAIN log : log[i] = step})

CompileOver == "ensure_compiler_dependencies" \in Range(callLog) /\ pc \in {"returned", "exited"}

\* C17: without a manifest in the entry point's directory and with the
\* packaging tool importable, compile asks for no consent, installs nothing
\* and runs the packaging tool exactly once, with one hidden import for
\* every external import, no other, and the entry path as last argument.
C17_NoManifestGoesStraightToPackaging ==
    (CompileOver /\ ~manifestExists /\ env[ToolImportName] = "ok") =>
        /\ ConsentPrompts = <<>>
        /\ installLog = <<>>
        /\ Count(callLog, "pyinstaller") = 1
        /\ cmd.hidden = analysis.external_imports
        /\ cmd.script = scriptPath

CompileStarted == "ensure_compiler_dependencies" \in Range(callLog)

\* compile_to_exe is at a step it can take: a straight-line step, or a loop
\* turn with an element left to look at
CompileCanStep ==
    \/ pc \in {"compile", "proj_locate", "proj_consent", "analyze", "run_tool", "cleanup"}
    \/ pc \in {"comp_check", "proj_check"} /\ idx \in DOMAIN required
    \/ pc \in {"comp_install", "proj_install"} /\ idx \in DOMAIN missing

\* C20: compile_to_exe never lets an exception out: whatever fails inside
\* it (a probe raising something else than ImportError, pip that cannot be
\* started, the listing of a directory that does not exist, the packaging
\* tool failing or missing), the call goes on until it returns, and it
\* returns True or False, False whenever the packaging tool did not exit 0.
C20_CompileAlwaysReturnsBoolean ==
    CompileStarted =>
        /\ fault = "none"
        /\ pc \notin {"returned", "exited"} => CompileCanStep
        /\ pc \in {"returned", "exited"} =>
              /\ result \in {"true", "false"}
              /\ toolResult # "exit0" => result = "false"

C20_Witness ==
    /\ pc = "exited" /\ DirName(scriptPath) = MissingDir
    /\ "analyze_dependencies" \in Range(callLog)
    /\ toolResult = "none" /\ result = "false" /\ exitCode = 1

\* the prompts of the discovery: confirmations of a candidate and the offer
\* of the manual selection
DiscoveryPrompts == SelectSeq(prompts, LAMBDA q : q.kind \in {"compile", "manual"})

\* the console lines that confirm
YesLines == { <<"Y"," ">> }

\* C18: without arguments the candidates come in the order main.py, any
\* eligible file, manual selection; each candidate is confirmed by a yes/no
\* question before it is compiled; compile starts only for the candidate
\* just confirmed, or for the file picked in the dialog after the manual
\* selection was agreed to; at most one compile is started per run.
C18_DiscoveryOrderAndConfirmation ==
    LET dp == DiscoveryPrompts
    IN  argc = 0 =>
          /\ Len(SelectSeq(dp, LAMBDA q : q.kind = "compile")) <= 2
          /\ Len(SelectSeq(dp, LAMBDA q : q.kind = "manual")) <= 1
          /\ \A i, j \in DOMAIN dp : (i < j /\ dp[j].kind = "compile") =>
                  /\ dp[i].kind = "compile"
                  /\ dp[i].file = Join(current_dir, MainPy)
          /\ \A i \in DOMAIN dp : i < Len(dp) => dp[i].answer = "decline"
          /\ (dp # <<>> /\ mainExists = "yes") =>
                  (dp[1].kind = "compile" /\ dp[1].file = Join(current_dir, MainPy))
          /\ pc = "compile" =>
                  /\ stdin.kind = "line" /\ stdin.text \in YesLines
                  /\ dp # <<>> /\ dp[Len(dp)].answer = "accept"
                  /\ \/ dp[Len(dp)].kind = "compile" /\ dp[Len(dp)].file = scriptPath
                     \/ dp[Len(dp)].kind = "manual" /\ scriptPath \in DialogPicks \ { <<>> }
          /\ CompileStarted =>
                  /\ Count(callLog, "ensure_compiler_dependencies") = 1
                  /\ dp # <<>> /\ dp[Len(dp)].answer = "accept"
                  /\ pc \notin {"main", "find_main", "ask_main", "find_any", "ask_any",
                                "manual", "dialog", "compile"}

C18_Witness ==
    /\ argc = 0 /\ pc = "exited" /\ CompileStarted
    /\ Len(DiscoveryPrompts) = 3
    /\ DiscoveryPrompts[1].file = Join(current_dir, MainPy)
    /\ DiscoveryPrompts[2].file = Join(current_dir, AppPy)
    /\ DiscoveryPrompts[3].kind = "manual"
    /\ scriptPath = Join(<<"p">>, AppPy)

\* the candidates the user has declined so far
DeclinedFiles ==
    {prompts[i].file : i \in {k \in DOMAIN prompts :
                                  prompts[k].kind = "compile" /\ prompts[k].answer = "decline"}}

\* C21: without arguments, a candidate the user has declined is not offered
\* for confirmation again in the same run: after main.py was declined, the
\* file find_any_python_file comes up with is another file, or none.
C21_DeclinedNeverOfferedAgain ==
    argc = 0 =>
        /\ pc = "ask_any" => scriptPath \notin DeclinedFiles
        /\ \A i, j \in DOMAIN prompts :
              (i < j /\ prompts[i].kind = "compile" /\ prompts[j].kind = "compile"
                     /\ prompts[i].answer = "decline") =>
                  prompts[j].file # prompts[i].file

====
